---- MODULE Spec2Model ----
(***************************************************************************)
(* A model of moneybot's market-history ingestion                          *)
(* (src/moneybot/MarketHistory.py) and of its fund engine                  *)
(* (src/moneybot/fund.py).                                                 *)
(*                                                                         *)
(* Time is counted in candle periods (one unit = 900 s).                   *)
(***************************************************************************)
EXTENDS Integers, Sequences, FiniteSets, TLC

\* ------------------------------------------------------------- bounds
\* The clock stops at MaxTime.
MaxTime == 5
\* The simulated adapter holds between 0 and MaxBalance units.
MaxBalance == 2
\* A backtest starts between 0 and MaxStart and ends between 0 and MaxEnd.
MaxStart == 1
MaxEnd == 3
\* The strategy's trade_interval is between 1 and MaxInterval periods.
MaxInterval == 2

\* ---------------------------------------------------------- constants
\* YEAR (MarketHistory.py:14), in candle periods: 60*60*24*365 / 900.
YEAR == 35040
\* What Series.asof gives when no sample is at or before the asked time.
NaN == -1

\* polo.returnTicker(): the tradable pairs, in the order the loop visits them.
Markets == <<"BTC_ETH", "BTC_XMR">>
\* The synthetic pair the reference series is written under.
USD_BTC == "USD_BTC"
\* The process's UTC offsets the model covers (the machine's time zone).
TZOffsets == {0, 1}
\* What the coinmarketcap request can come back with.
RefResponses == {"ok", "fetch_fail", "no_price_usd", "no_price_btc", "empty"}

VARIABLES
    now,               \* the wall clock, time.time()
    tz,                \* the process's offset from UTC
    store,             \* the History Store: the scrapedChart points
    store0,            \* the store at the start of the behaviour
    ipc,               \* where scrape_since_last_reading stands
    fail_at,           \* the place that raised, when ipc = "failed"
    btc_price_hist,    \* the reference frame fetched at line 39
    latest_fetch_unix, \* the cursor computed at lines 96-102
    market_idx,        \* the loop variable of line 105
    pair_status,       \* per market of this run: pending, ok, failed
    fetched,           \* per market of this run: the candles returnChartData gave
    ref_written,       \* this run wrote the USD_BTC series
    run_store,         \* the store when this run started
    run_now,           \* the clock when this run started
    back_to_back,      \* this run began right where a completed run began and ended
    strategy,          \* which Strategy the Fund was built with
    trade_interval,    \* strategy.trade_interval
    ms_heap,           \* the MarketState objects, by address
    dict_heap,         \* the balances dictionaries, by address
    spc,               \* where Fund.step stands
    step_time,         \* step's argument
    copied_market_state, \* the reference step hands to propose_trades
    proposed_trades,   \* what propose_trades returned
    executed,          \* the argument of this step's filter_and_execute, if called
    usd_value,         \* step's return value
    in_flight,         \* calls of step that have not returned
    phases,            \* the phases the current step went through, in order
    mode,              \* the driver in charge: none, backtest, live, crashed
    lpc,               \* where run_live stands
    start_time,        \* run_live's loop start
    cur_time,          \* run_live's cur_time of the iteration
    sleep_for,         \* the argument of run_live's last sleep
    iter_begun,        \* the clock at the top of each live iteration so far
    live_steps,        \* how many times run_live has called step
    dates,             \* begin_backtest's dates still to visit
    bt_args,           \* the (start, end) of the current backtest
    bt_balance0,       \* the adapter's balance when the backtest began
    stepped,           \* the timestamps the current backtest has stepped
    yielded,           \* the values the current backtest has yielded
    runs               \* the last backtest consumed, if any

ingest_vars == <<store, ipc, fail_at, btc_price_hist, latest_fetch_unix,
                 market_idx, pair_status, fetched, ref_written, run_store,
                 run_now, back_to_back>>
step_vars == <<ms_heap, dict_heap, spc, step_time, copied_market_state,
               proposed_trades, executed, usd_value, in_flight, phases>>
live_vars == <<lpc, start_time, cur_time, sleep_for, iter_begun, live_steps>>
backtest_vars == <<dates, bt_args, bt_balance0, stepped, yielded, runs>>
fund_vars == <<strategy, trade_interval, step_vars, mode, live_vars, backtest_vars>>
vars == <<now, tz, store0, ingest_vars, fund_vars>>

\* ------------------------------------------------------ time conversions
\* datetime.fromtimestamp(t): the naive local wall time of unix time t.
FromTimestamp(t) == t + tz
\* time.mktime(x.timetuple()): the unix time of a wall time read as local.
Mktime(wall) == wall - tz
\* format_time, then InfluxDB's reading of the zone-less string as UTC: a
\* wall time of whole periods has no sub-second part for strftime to drop.
format_time(ts) == ts

\* ------------------------------------------------------ upstream sources
\* The exchange's candle of pair number i that starts at time t.
CandleShape(i, t) == (t + i) % 4
ChartCandle(i, t) ==
    [date |-> t,
     volume |-> IF CandleShape(i, t) \in {1, 3} THEN 10 + t ELSE 0,
     weightedAverage |-> IF CandleShape(i, t) \in {1, 2} THEN i + 1 ELSE 0,
     close |-> IF CandleShape(i, t) = 0 THEN 0 ELSE 20 + t]
\* The all-zero reading the API gives when it has no chart data to report.
NoDataCandle == [date |-> 0, volume |-> 0, weightedAverage |-> 0, close |-> 0]
\* polo.returnChartData(pair, period, start, end) at clock `now`.
returnChartData(i, start, end) ==
    LET real == {ChartCandle(i, t) : t \in {u \in 1..now : start <= u /\ u <= end}}
    IN  IF real = {} THEN {NoDataCandle} ELSE real

\* coinmarketcap's samples: one every second period, from time 0.
RefSampleTimes(asOf) == {t \in 0..asOf : t % 2 = 0}
RefPriceUsd(t) == 100 + t
RefVolumeUsd(t) == 3 * RefPriceUsd(t)
\* bitcoin's price_btc is 1 in every sample.
RefPriceBtc(t) == 1
\* The columns market_cap() builds from a response of the given kind.
HistColumns(kind) ==
    CASE kind = "ok" -> {"market_cap_by_available_supply", "price_btc", "price_usd", "volume_usd"}
      [] kind = "no_price_usd" -> {"market_cap_by_available_supply", "price_btc", "volume_usd"}
      [] kind = "no_price_btc" -> {"market_cap_by_available_supply", "price_usd", "volume_usd"}
      [] OTHER -> {}
\* coin_history('bitcoin'): the frame of a response of `kind` fetched at `at`.
coin_history(kind, at) ==
    [columns |-> HistColumns(kind),
     index |-> IF kind = "empty" THEN {} ELSE RefSampleTimes(at)]

\* ------------------------------------------------------------ the store
Key(p) == <<p.pair, p.time>>
Override(old, new) ==
    [k \in (DOMAIN old) \cup (DOMAIN new) |-> IF k \in DOMAIN new THEN new[k] ELSE old[k]]
\* A point written over one of the same series and time merges its fields in.
Merged(s, p) ==
    IF \E q \in s : Key(q) = Key(p)
    THEN LET q == CHOOSE x \in s : Key(x) = Key(p)
         IN  [pair |-> p.pair, time |-> p.time, fields |-> Override(q.fields, p.fields)]
    ELSE p
\* A write that replaces what the measurement held.
write_points_fresh(s, pts) == pts

\* client.write_points(points): points are added, and one of a stored series
\* and time takes the stored one's place.
write_points(s, pts) ==
    {q \in s : \A p \in pts : Key(p) # Key(q)} \cup {Merged(s, p) : p \in pts}
\* select * from scrapedChart order by time desc limit 1, then ['time'].
LatestTime(s) == CHOOSE t \in {p.time : p \in s} : \A p \in s : p.time <= t

\* ------------------------------------------------------- reconciliation
Mul(a, b) == IF a = NaN \/ b = NaN THEN NaN ELSE a * b
\* btc_price_hist['price_usd'].asof(when): last observation carried forward.
Asof(hist, when) ==
    LET before == {t \in hist.index : t <= when}
    IN  IF before = {} THEN NaN
        ELSE RefPriceUsd(CHOOSE t \in before : \A u \in before : u <= t)
contemporary_usd_price(hist, rowname, weightedAverage) ==
    Mul(weightedAverage, Asof(hist, rowname))
\* scraped_chart(currency_pair, row) of a candle row, 'date' dropped (line 74).
scraped_chart(pair, hist, c) ==
    [pair |-> pair,
     time |-> format_time(FromTimestamp(c.date)),
     fields |-> [volume |-> c.volume,
                 weightedAverage |-> c.weightedAverage,
                 close |-> c.close,
                 price_usd |-> contemporary_usd_price(hist, FromTimestamp(c.date),
                                                      c.weightedAverage)]]
\* A test that drops a reading as soon as one of the two is 0.
IsSentinelEither(chart) == chart.fields.volume = 0 \/ chart.fields.weightedAverage = 0

\* The test of line 80.
IsSentinel(chart) == chart.fields.volume = 0 /\ chart.fields.weightedAverage = 0
\* What the generator historical_prices_of yields for the candles given.
historical_prices_of(pair, hist, candles) ==
    {ch \in {scraped_chart(pair, hist, c) : c \in candles} : ~IsSentinel(ch)}
\* marshall(btc_price_hist, key='price_usd'), each row through scraped_chart.
marshall(hist) ==
    {[pair |-> USD_BTC,
      time |-> format_time(t),
      fields |-> [price_btc |-> RefPriceBtc(t),
                  volume |-> RefVolumeUsd(t) \div (RefPriceUsd(t) \div RefPriceBtc(t)),
                  weightedAverage |-> RefPriceUsd(t)]] : t \in hist.index}

\* ---------------------------------------------- scrape_since_last_reading
MarketIds == 1..Len(Markets)
ReferenceColumns == {"market_cap_by_available_supply", "price_btc", "price_usd", "volume_usd"}

\* An exception leaves the routine: nothing after the raising line runs.
Raise(place) ==
    /\ ipc' = "failed"
    /\ fail_at' = place

\* The call of scrape_since_last_reading: the run's bookkeeping starts afresh.
BeginScrape ==
    /\ ipc' = "reference"
    /\ fail_at' = "none"
    /\ market_idx' = 1
    /\ pair_status' = [i \in MarketIds |-> "pending"]
    /\ fetched' = [i \in MarketIds |-> {}]
    /\ ref_written' = FALSE
    /\ run_store' = store
    /\ run_now' = now
    /\ back_to_back' = (ipc = "done" /\ run_now = now)
    /\ UNCHANGED <<store, btc_price_hist, latest_fetch_unix>>

\* Line 39: btc_price_hist = coin_history('bitcoin').
FetchReference ==
    /\ UNCHANGED fund_vars
    /\ ipc = "reference"
    /\ \E kind \in RefResponses :
         IF kind = "fetch_fail"
         THEN /\ Raise("reference")
              /\ UNCHANGED btc_price_hist
         ELSE /\ btc_price_hist' = coin_history(kind, now)
              /\ ipc' = "query"
              /\ UNCHANGED fail_at
    /\ UNCHANGED <<now, tz, store, store0, latest_fetch_unix, market_idx,
                   pair_status, fetched, ref_written, run_store, run_now,
                   back_to_back>>

\* Lines 88-102: the most recent stored point's time, as unix time.
QueryLatest ==
    /\ UNCHANGED fund_vars
    /\ ipc = "query"
    /\ IF store = {}
       THEN /\ Raise("query")
            /\ UNCHANGED latest_fetch_unix
       ELSE /\ latest_fetch_unix' = Mktime(LatestTime(store))
            /\ ipc' = "pairs"
            /\ UNCHANGED fail_at
    /\ UNCHANGED <<now, tz, store, store0, btc_price_hist, market_idx,
                   pair_status, fetched, ref_written, run_store, run_now,
                   back_to_back>>

\* Lines 105-113: one turn of the loop over the markets. `up` is whether the
\* exchange answers the chart request.
ScrapeMarket ==
    /\ UNCHANGED fund_vars
    /\ ipc = "pairs"
    /\ \E up \in BOOLEAN :
         LET i == market_idx
             candles == returnChartData(i, latest_fetch_unix, now)
         IN  IF ~up
             THEN /\ Raise("pair")
                  /\ pair_status' = [pair_status EXCEPT ![i] = "failed"]
                  /\ UNCHANGED <<store, fetched, market_idx>>
             ELSE IF "price_usd" \notin btc_price_hist.columns
             THEN /\ Raise("reference_field")
                  /\ fetched' = [fetched EXCEPT ![i] = candles]
                  /\ UNCHANGED <<store, pair_status, market_idx>>
             ELSE /\ store' = write_points(store,
                              historical_prices_of(Markets[i], btc_price_hist, candles))
                  /\ fetched' = [fetched EXCEPT ![i] = candles]
                  /\ pair_status' = [pair_status EXCEPT ![i] = "ok"]
                  /\ market_idx' = i + 1
                  /\ ipc' = IF i = Len(Markets) THEN "marshall" ELSE "pairs"
                  /\ UNCHANGED fail_at
    /\ UNCHANGED <<now, tz, store0, btc_price_hist, latest_fetch_unix,
                   ref_written, run_store, run_now, back_to_back>>

\* Lines 117-132: the reference series, reconciled and written as USD_BTC.
WriteReference ==
    /\ UNCHANGED fund_vars
    /\ ipc = "marshall"
    /\ IF ~(ReferenceColumns \subseteq btc_price_hist.columns)
       THEN /\ Raise("marshall")
            /\ UNCHANGED <<store, ref_written>>
       ELSE /\ store' = write_points(store, marshall(btc_price_hist))
            /\ ref_written' = TRUE
            /\ ipc' = "done"
            /\ UNCHANGED fail_at
    /\ UNCHANGED <<now, tz, store0, btc_price_hist, latest_fetch_unix, market_idx,
                   pair_status, fetched, run_store, run_now, back_to_back>>

\* The caller of scrape_since_last_reading when no fund is running.
IngestRun ==
    /\ mode = "none"
    /\ ipc \in {"idle", "done", "failed"}
    /\ BeginScrape
    /\ UNCHANGED <<now, tz, store0, fund_vars>>

\* The clock moves on while ingestion is all that runs.
TickIngest ==
    /\ mode = "none"
    /\ now < MaxTime
    /\ now' = now + 1
    /\ UNCHANGED <<tz, store0, ingest_vars, fund_vars>>

\* ------------------------------------------------------------ the adapter
\* Addresses of the objects in play: the adapter's live MarketState and its
\* balances dictionary, and the ones a copy allocates.
LiveMs == "live_ms"
LiveBalances == "live_bal"
CopyMs == "copy_ms"
CopyBalances == "copy_bal"
MsAddr == {LiveMs, CopyMs}
DictAddr == {LiveBalances, CopyBalances}
Balances == 0..MaxBalance

\* adapter.get_market_state(time): the adapter's MarketState for `time`, built
\* over its own balances dictionary.
get_market_state(time) == [time |-> time, balances |-> LiveBalances]

\* One trade through the adapter's feasibility filter.
ExecuteOne(bal, trade) == IF bal + trade \in Balances THEN bal + trade ELSE bal
RECURSIVE ExecuteAll(_, _)
ExecuteAll(bal, trades) ==
    IF trades = <<>> THEN bal
    ELSE ExecuteAll(ExecuteOne(bal, Head(trades)), Tail(trades))
\* adapter.filter_and_execute(proposed_trades): the balances it leaves.
filter_and_execute(bal, trades) == ExecuteAll(bal, trades)

\* market_state.estimate_total_value_usd() of the MarketState at `ref`.
estimate_total_value_usd(msh, dh, ref) ==
    dh[msh[ref].balances] * RefPriceUsd(msh[ref].time)

\* ----------------------------------------------------------- the strategy
Strategies == {"hold", "buy", "sell", "swing"}
\* strategy.propose_trades: a function of what the strategy is handed.
propose_trades(strat, time, balance) ==
    CASE strat = "hold" -> <<>>
      [] strat = "buy" -> <<1>>
      [] strat = "sell" -> <<-1>>
      [] OTHER -> IF balance = 0 \/ time % 2 = 0 THEN <<1, 1>> ELSE <<-1>>
\* What a strategy may do to the object it is handed while it decides.
Mutations == {"none", "set_balances", "clear_balances", "set_time", "rebind_balances"}
\* The heaps after the strategy did `mut` through the reference `ref`.
Mutate(msh, dh, ref, mut) ==
    CASE mut = "set_balances" ->
            [ms |-> msh, dict |-> [dh EXCEPT ![msh[ref].balances] = MaxBalance]]
      [] mut = "clear_balances" ->
            [ms |-> msh, dict |-> [dh EXCEPT ![msh[ref].balances] = 0]]
      [] mut = "set_time" ->
            [ms |-> [msh EXCEPT ![ref].time = 0], dict |-> dh]
      [] mut = "rebind_balances" ->
            [ms |-> [msh EXCEPT ![ref].balances = CopyBalances], dict |-> dh]
      [] OTHER -> [ms |-> msh, dict |-> dh]

\* --------------------------------------------------------------- Fund.step
\* copy.copy in deepcopy's place: a new MarketState over the same dictionary.
shallow_copy(msh, dh, ref) ==
    [ref |-> CopyMs,
     ms |-> [msh EXCEPT ![CopyMs] = msh[ref]],
     dict |-> dh]

\* copy.deepcopy of the MarketState at `ref`: every object reachable from it
\* is allocated anew.
deepcopy(msh, dh, ref) ==
    [ref |-> CopyMs,
     ms |-> [msh EXCEPT ![CopyMs] = [time |-> msh[ref].time, balances |-> CopyBalances]],
     dict |-> [dh EXCEPT ![CopyBalances] = dh[msh[ref].balances]]]

\* The heaps once step's local copied_market_state is gone: the objects the
\* copy allocated are free again.
FreeMs == [time |-> 0, balances |-> CopyBalances]
Released(h) ==
    [ms |-> [h.ms EXCEPT ![CopyMs] = FreeMs], dict |-> [h.dict EXCEPT ![CopyBalances] = 0]]

\* step has returned and its caller holds the value: step's frame is gone.
StepFrameGone ==
    /\ spc' = "idle"
    /\ step_time' = 0
    /\ proposed_trades' = <<>>
    /\ executed' = <<>>
    /\ usd_value' = 0
    /\ phases' = <<>>
    /\ UNCHANGED <<ms_heap, dict_heap, copied_market_state, in_flight>>

\* A driver's call of self.step(time).
CallStep(time) ==
    /\ spc' = "snapshot"
    /\ step_time' = time
    /\ in_flight' = in_flight + 1
    /\ phases' = <<>>
    /\ executed' = <<>>
    /\ proposed_trades' = <<>>
    /\ UNCHANGED <<ms_heap, dict_heap, copied_market_state, usd_value>>

\* A call that step makes raised: step catches nothing, so the exception
\* leaves step, whose frame and local copy go with it.
StepRaise ==
    /\ spc' = "raised"
    /\ in_flight' = in_flight - 1
    /\ LET h == Released([ms |-> ms_heap, dict |-> dict_heap])
       IN  /\ ms_heap' = h.ms
           /\ dict_heap' = h.dict
    /\ copied_market_state' = "none"
    /\ UNCHANGED <<step_time, proposed_trades, executed, usd_value, phases>>

\* Line 51, the inner call: self.market_adapter.get_market_state(time), which
\* returns the snapshot or raises.
StepSnapshot ==
    /\ spc = "snapshot"
    /\ \E raised \in BOOLEAN :
         IF raised
         THEN StepRaise
         ELSE /\ ms_heap' = [ms_heap EXCEPT ![LiveMs] = get_market_state(step_time)]
              /\ spc' = "copy"
              /\ phases' = Append(phases, "snapshot")
              /\ UNCHANGED <<dict_heap, step_time, copied_market_state, proposed_trades,
                             executed, usd_value, in_flight>>
    /\ UNCHANGED <<now, tz, store0, ingest_vars, strategy, trade_interval, mode,
                   live_vars, backtest_vars>>

\* Line 51, the outer call: copied_market_state = deepcopy(...).
StepCopy ==
    /\ spc = "copy"
    /\ LET c == deepcopy(ms_heap, dict_heap, LiveMs)
       IN  /\ ms_heap' = c.ms
           /\ dict_heap' = c.dict
           /\ copied_market_state' = c.ref
    /\ spc' = "decide"
    /\ phases' = Append(phases, "copy")
    /\ UNCHANGED <<step_time, proposed_trades, executed, usd_value, in_flight>>
    /\ UNCHANGED <<now, tz, store0, ingest_vars, strategy, trade_interval, mode,
                   live_vars, backtest_vars>>

\* Line 54: the strategy reads what it was handed, may write to it, and
\* returns its trades or raises.
StepDecide ==
    /\ spc = "decide"
    /\ \E raised \in BOOLEAN :
         IF raised
         THEN StepRaise
         ELSE /\ \E mut \in Mutations :
                   LET ref == copied_market_state
                       h == Mutate(ms_heap, dict_heap, ref, mut)
                   IN  /\ proposed_trades' = propose_trades(strategy, ms_heap[ref].time,
                                                  dict_heap[ms_heap[ref].balances])
                       /\ ms_heap' = h.ms
                       /\ dict_heap' = h.dict
              /\ spc' = "execute"
              /\ phases' = Append(phases, "decide")
              /\ UNCHANGED <<step_time, copied_market_state, executed, usd_value,
                             in_flight>>
    /\ UNCHANGED <<now, tz, store0, ingest_vars, strategy, trade_interval, mode,
                   live_vars, backtest_vars>>

\* A test that lets every list through, the empty one too.
always_truthy(trades) == TRUE

\* Line 56, `if proposed_trades:`: a list is true when it is not empty.
truthy(trades) == trades # <<>>

\* Lines 56-63: if proposed_trades: filter_and_execute(proposed_trades), which
\* executes the trades or raises.
StepExecute ==
    /\ spc = "execute"
    /\ IF truthy(proposed_trades)
       THEN \E raised \in BOOLEAN :
              IF raised
              THEN StepRaise
              ELSE /\ dict_heap' = [dict_heap EXCEPT ![LiveBalances] =
                               filter_and_execute(dict_heap[LiveBalances], proposed_trades)]
                   /\ executed' = <<proposed_trades>>
                   /\ phases' = Append(phases, "execute")
                   /\ spc' = "valuate"
                   /\ UNCHANGED <<ms_heap, step_time, copied_market_state,
                                  proposed_trades, usd_value, in_flight>>
       ELSE /\ spc' = "valuate"
            /\ UNCHANGED <<ms_heap, dict_heap, step_time, copied_market_state,
                           proposed_trades, executed, usd_value, in_flight, phases>>
    /\ UNCHANGED <<now, tz, store0, ingest_vars, strategy, trade_interval, mode,
                   live_vars, backtest_vars>>

\* The snapshot taken before the trades, valued in the adapter's place.
ValuedCopy == copied_market_state

\* Line 67: the MarketState that is valued, self.market_adapter.market_state.
ValuedMarketState == LiveMs

\* Lines 67-68: the value read from the adapter's market_state, and returned.
StepValuate ==
    /\ spc = "valuate"
    /\ usd_value' = estimate_total_value_usd(ms_heap, dict_heap, ValuedMarketState)
    /\ LET h == Released([ms |-> ms_heap, dict |-> dict_heap])
       IN  /\ ms_heap' = h.ms
           /\ dict_heap' = h.dict
    /\ copied_market_state' = "none"
    /\ spc' = "returned"
    /\ in_flight' = in_flight - 1
    /\ phases' = Append(phases, "valuate")
    /\ UNCHANGED <<step_time, proposed_trades, executed>>
    /\ UNCHANGED <<now, tz, store0, ingest_vars, strategy, trade_interval, mode,
                   live_vars, backtest_vars>>

\* ---------------------------------------------------- Fund.begin_backtest
\* A range that stops short of end, as a half-open range would.
date_range_open(start, end, interval) ==
    IF start >= end THEN <<>>
    ELSE [k \in 1..((end - start - 1) \div interval + 1) |-> start + (k - 1) * interval]

\* pd.date_range(start, end, freq=f'{interval}S'): start, start + interval, ...
\* while not past end.
date_range(start, end, interval) ==
    IF start > end THEN <<>>
    ELSE [k \in 1..((end - start) \div interval + 1) |-> start + (k - 1) * interval]

\* begin_backtest(start_time, end_time), up to the head of its for loop.
BeginBacktest ==
    /\ mode = "none"
    /\ ipc \in {"idle", "done", "failed"}
    /\ \E start \in 0..MaxStart, end \in 0..MaxEnd :
         /\ dates' = date_range(start, end, trade_interval)
         /\ bt_args' = <<start, end>>
    /\ mode' = "backtest"
    /\ bt_balance0' = dict_heap[LiveBalances]
    /\ stepped' = <<>>
    /\ yielded' = <<>>
    /\ UNCHANGED <<now, tz, store0, ingest_vars, strategy, trade_interval, step_vars,
                   live_vars, runs>>

\* Lines 110-111: the next date of the loop, and the call of step on it.
BacktestStep ==
    /\ mode = "backtest"
    /\ spc = "idle"
    /\ dates # <<>>
    /\ CallStep(Head(dates))
    /\ stepped' = Append(stepped, Head(dates))
    /\ dates' = Tail(dates)
    /\ UNCHANGED <<now, tz, store0, ingest_vars, strategy, trade_interval, mode,
                   live_vars, bt_args, bt_balance0, yielded, runs>>

\* Line 112: yield val.
BacktestYield ==
    /\ mode = "backtest"
    /\ spc = "returned"
    /\ yielded' = Append(yielded, usd_value)
    /\ StepFrameGone
    /\ UNCHANGED <<now, tz, store0, ingest_vars, strategy, trade_interval, mode,
                   live_vars, dates, bt_args, bt_balance0, stepped, runs>>

\* A loop that catches what step raises and goes on to the next date.
BacktestSwallow ==
    /\ mode = "backtest"
    /\ spc = "raised"
    /\ StepFrameGone
    /\ UNCHANGED <<now, tz, store0, ingest_vars, strategy, trade_interval, mode,
                   live_vars, backtest_vars>>

\* Line 111 raised: begin_backtest catches nothing, the exception leaves the
\* generator for the caller that was iterating it.
BacktestRaise ==
    /\ mode = "backtest"
    /\ spc = "raised"
    /\ mode' = "crashed"
    /\ UNCHANGED <<now, tz, store0, ingest_vars, strategy, trade_interval, step_vars,
                   live_vars, backtest_vars>>

\* The for loop runs out of dates: the generator is exhausted.
BacktestEnd ==
    /\ mode = "backtest"
    /\ spc = "idle"
    /\ dates = <<>>
    /\ runs' = <<[args |-> bt_args, balance0 |-> bt_balance0,
                  stepped |-> stepped, yielded |-> yielded]>>
    /\ mode' = "none"
    /\ bt_args' = <<0, 0>>
    /\ bt_balance0' = 0
    /\ stepped' = <<>>
    /\ yielded' = <<>>
    /\ UNCHANGED <<now, tz, store0, ingest_vars, strategy, trade_interval, step_vars,
                   live_vars, dates>>

\* ------------------------------------------------------------ Fund.run_live
\* A sleep of one whole period whatever the step took.
sleep_whole_period(period, started, t) == period

\* The period less the time elapsed, with no modulo taken.
sleep_no_modulo(period, started, t) == period - (t - started)

\* The argument of sleep at line 89, with time() read as `t`.
sleep_duration(period, started, t) == period - ((t - started) % period)

\* Lines 71-72: start_time = time(); PERIOD = self.strategy.trade_interval.
RunLive ==
    /\ mode = "none"
    /\ ipc \in {"idle", "done", "failed"}
    /\ mode' = "live"
    /\ start_time' = now
    /\ lpc' = "top"
    /\ runs' = <<>>
    /\ UNCHANGED <<now, tz, store0, ingest_vars, strategy, trade_interval, step_vars,
                   cur_time, sleep_for, iter_begun, live_steps, dates, bt_args,
                   bt_balance0, stepped, yielded>>

\* Lines 77-81: cur_time = datetime.now(), and the call of scrape_latest.
LiveScrape ==
    /\ mode = "live"
    /\ lpc = "top"
    /\ cur_time' = FromTimestamp(now)
    /\ iter_begun' = Append(iter_begun, now)
    /\ BeginScrape
    /\ lpc' = "scrape"
    /\ UNCHANGED <<now, tz, store0, strategy, trade_interval, step_vars, mode,
                   start_time, sleep_for, live_steps, backtest_vars>>

\* scrape_latest raised: run_live catches nothing, the exception leaves it.
LiveCrash ==
    /\ mode = "live"
    /\ lpc = "scrape"
    /\ ipc = "failed"
    /\ mode' = "crashed"
    /\ lpc' = "raised"
    /\ UNCHANGED <<now, tz, store0, ingest_vars, strategy, trade_interval, step_vars,
                   start_time, cur_time, sleep_for, iter_begun, live_steps,
                   backtest_vars>>

\* A loop that calls step without waiting for scrape_latest to return.
LiveStepEarly ==
    /\ mode = "live"
    /\ lpc = "scrape"
    /\ ipc # "failed"
    /\ CallStep(cur_time)
    /\ lpc' = "step"
    /\ live_steps' = live_steps + 1
    /\ UNCHANGED <<now, tz, store0, ingest_vars, strategy, trade_interval, mode,
                   start_time, cur_time, sleep_for, iter_begun, backtest_vars>>

\* Line 84: usd_val = self.step(cur_time), once scrape_latest has returned.
LiveStep ==
    /\ mode = "live"
    /\ lpc = "scrape"
    /\ ipc = "done"
    /\ CallStep(cur_time)
    /\ lpc' = "step"
    /\ live_steps' = live_steps + 1
    /\ UNCHANGED <<now, tz, store0, ingest_vars, strategy, trade_interval, mode,
                   start_time, cur_time, sleep_for, iter_begun, backtest_vars>>

\* Line 84 raised: run_live catches nothing, the exception leaves it.
LiveRaise ==
    /\ mode = "live"
    /\ lpc = "step"
    /\ spc = "raised"
    /\ mode' = "crashed"
    /\ lpc' = "raised"
    /\ UNCHANGED <<now, tz, store0, ingest_vars, strategy, trade_interval, step_vars,
                   start_time, cur_time, sleep_for, iter_begun, live_steps,
                   backtest_vars>>

\* Line 89: sleep(PERIOD - ((time() - start_time) % PERIOD)).
LiveSleep ==
    /\ mode = "live"
    /\ lpc = "step"
    /\ spc = "returned"
    /\ sleep_for' = sleep_duration(trade_interval, start_time, now)
    /\ now + sleep_for' <= MaxTime
    /\ now' = now + sleep_for'
    /\ lpc' = "top"
    /\ StepFrameGone
    /\ UNCHANGED <<tz, store0, ingest_vars, strategy, trade_interval, mode,
                   start_time, cur_time, iter_begun, live_steps, backtest_vars>>

\* The clock moves on while the live loop fetches, steps and computes; sleep's
\* return and the next cur_time = datetime.now() are consecutive statements.
TickLive ==
    /\ mode = "live"
    /\ lpc # "top"
    /\ now < MaxTime
    /\ now' = now + 1
    /\ UNCHANGED <<tz, store0, ingest_vars, fund_vars>>

\* ------------------------------------------------------ the specifications
\* What an earlier, complete run at time 1 left in the store.
SeedStore(offset) ==
    LET hist == coin_history("ok", 1)
        chart(i) == [pair |-> Markets[i],
                     time |-> 1 + offset,
                     fields |-> [volume |-> ChartCandle(i, 1).volume,
                                 weightedAverage |-> ChartCandle(i, 1).weightedAverage,
                                 close |-> ChartCandle(i, 1).close,
                                 price_usd |-> contemporary_usd_price(hist, 1 + offset,
                                                  ChartCandle(i, 1).weightedAverage)]]
    IN  {chart(i) : i \in MarketIds} \cup marshall(hist)

InitIngestion ==
    /\ now = 1
    /\ tz \in TZOffsets
    /\ store \in {{}, SeedStore(tz)}
    /\ store0 = store
    /\ ipc = "idle"
    /\ fail_at = "none"
    /\ btc_price_hist = coin_history("empty", 0)
    /\ latest_fetch_unix = 0
    /\ market_idx = 1
    /\ pair_status = [i \in MarketIds |-> "pending"]
    /\ fetched = [i \in MarketIds |-> {}]
    /\ ref_written = FALSE
    /\ run_store = store
    /\ run_now = now
    /\ back_to_back = FALSE

InitFund ==
    /\ strategy \in Strategies
    /\ trade_interval \in 1..MaxInterval
    /\ ms_heap = [a \in MsAddr |-> IF a = LiveMs THEN get_market_state(0) ELSE FreeMs]
    /\ dict_heap = [a \in DictAddr |-> IF a = LiveBalances THEN 1 ELSE 0]
    /\ spc = "idle"
    /\ step_time = 0
    /\ copied_market_state = "none"
    /\ proposed_trades = <<>>
    /\ executed = <<>>
    /\ usd_value = 0
    /\ in_flight = 0
    /\ phases = <<>>
    /\ mode = "none"
    /\ lpc = "off"
    /\ start_time = 0
    /\ cur_time = 0
    /\ sleep_for = 0
    /\ iter_begun = <<>>
    /\ live_steps = 0
    /\ dates = <<>>
    /\ bt_args = <<0, 0>>
    /\ bt_balance0 = 0
    /\ stepped = <<>>
    /\ yielded = <<>>
    /\ runs = <<>>

\* A fund and its drivers, over a store that ingestion has filled before.
Init ==
    /\ InitIngestion
    /\ InitFund
    /\ store # {}

Next ==
    \/ BeginBacktest
    \/ BacktestStep
    \/ BacktestYield
    \/ BacktestRaise
    \/ BacktestEnd
    \/ RunLive
    \/ LiveScrape
    \/ LiveCrash
    \/ LiveStep
    \/ LiveRaise
    \/ LiveSleep
    \/ TickLive
    \/ StepSnapshot
    \/ StepCopy
    \/ StepDecide
    \/ StepExecute
    \/ StepValuate
    \/ FetchReference
    \/ QueryLatest
    \/ ScrapeMarket
    \/ WriteReference

Spec == Init /\ [][Next]_vars

\* Ingestion run on its own, as a scheduled job would run it.
InitIngest ==
    /\ InitIngestion
    /\ InitFund
    /\ strategy = "hold"
    /\ trade_interval = 1

NextIngest ==
    \/ IngestRun
    \/ TickIngest
    \/ FetchReference
    \/ QueryLatest
    \/ ScrapeMarket
    \/ WriteReference

SpecIngest == InitIngest /\ [][NextIngest]_vars

\* ================================================================ claims
\* The objects reachable from the MarketState at `ref`.
Reach(ref) == {ref, ms_heap[ref].balances}
\* What the adapter holds: its MarketState and its balances.
AdapterState ==
    [market_state |-> ms_heap[LiveMs],
     balances |-> dict_heap[LiveBalances],
     state_balances |-> dict_heap[ms_heap[LiveMs].balances]]

\* C1: while the strategy decides, the object it holds shares no object with
\* the adapter's market state, and the step in which it decides (and writes
\* to what it was handed) leaves the adapter's state as it was.
C1_Isolation ==
    [][spc = "decide" =>
        /\ Reach(copied_market_state) \cap (Reach(LiveMs) \cup {LiveBalances}) = {}
        /\ AdapterState' = AdapterState]_vars
\* The strategy has written to its copy, which now differs from the live state.
C1_Witness ==
    /\ spc = "execute"
    /\ proposed_trades # <<>>
    /\ dict_heap[ms_heap[CopyMs].balances] # dict_heap[LiveBalances]

\* The timestamps begin_backtest(start, end) is to step, as a set.
ExpectedDates(start, end) ==
    {t \in start..end : (t - start) % trade_interval = 0}
StrictlyIncreasing(seq) == \A k \in 1..(Len(seq) - 1) : seq[k] < seq[k + 1]
Range(seq) == {seq[k] : k \in 1..Len(seq)}
\* The backtest is fully consumed: the for loop has run out of dates.
Consumed == mode = "backtest" /\ dates = <<>> /\ spc = "idle"

\* C4: a backtest steps the timestamps start + k*I <= end, each once, in
\* strictly increasing order, and no other; end is stepped when end - start is
\* a multiple of I; one value is yielded per step, in step with the steps; and
\* nothing is stepped when start > end.
C4_BacktestDates ==
    mode = "backtest" =>
        /\ StrictlyIncreasing(stepped \o dates)
        /\ Range(stepped \o dates) = ExpectedDates(bt_args[1], bt_args[2])
        /\ Len(yielded) = Len(stepped) - (IF spc = "idle" THEN 0 ELSE 1)
        /\ Consumed =>
             /\ Range(stepped) = ExpectedDates(bt_args[1], bt_args[2])
             /\ Len(yielded) = Len(stepped)
             /\ (bt_args[1] > bt_args[2] => stepped = <<>>)
             /\ (bt_args[1] <= bt_args[2]
                   /\ (bt_args[2] - bt_args[1]) % trade_interval = 0
                 => stepped[Len(stepped)] = bt_args[2])
\* A consumed backtest of several steps whose last step is end itself.
C4_Witness ==
    /\ Consumed
    /\ Len(stepped) >= 2
    /\ stepped[Len(stepped)] = bt_args[2]
    /\ trade_interval > 1

\* C5: the sleep is interval - ((now - loop_start) mod interval) with now read
\* after the step, so every iteration after the first begins on loop_start's
\* interval grid; interval 60 and a step done 5 after loop_start sleep 55.
C5_DriftCompensated ==
    /\ \A k \in 2..Len(iter_begun) : (iter_begun[k] - start_time) % trade_interval = 0
    /\ (mode = "live" /\ lpc = "top" /\ iter_begun # <<>>) =>
         /\ sleep_for = trade_interval - (((now - sleep_for) - start_time) % trade_interval)
         /\ (now - start_time) % trade_interval = 0
    /\ \A s \in 0..MaxTime : sleep_duration(60, s, s + 5) = 55
\* The loop is back at its top after an iteration that took longer than one
\* interval and a sleep shorter than the interval.
C5_Witness ==
    /\ mode = "live"
    /\ lpc = "top"
    /\ iter_begun # <<>>
    /\ sleep_for >= 1
    /\ sleep_for < trade_interval
    /\ (now - sleep_for) - iter_begun[Len(iter_begun)] > trade_interval

\* The phases of a step in their order; execute is left out when no trade
\* was proposed.
IsPrefix(a, b) == Len(a) <= Len(b) /\ \A k \in 1..Len(a) : a[k] = b[k]
PhaseOrders ==
    {<<"snapshot", "copy", "decide", "execute", "valuate">>,
     <<"snapshot", "copy", "decide", "valuate">>}

\* C8: a step goes snapshot, copy, decide, execute (if any trade), valuate in
\* that order; the value it returns is the adapter's value after the trades
\* of the step; and no step begins while another has not returned.
C8_PhaseOrder ==
    /\ \E order \in PhaseOrders : IsPrefix(phases, order)
    /\ spc = "returned" =>
         /\ phases \in PhaseOrders
         /\ (executed # <<>>) = (phases = <<"snapshot", "copy", "decide", "execute", "valuate">>)
         /\ usd_value = estimate_total_value_usd(ms_heap, dict_heap, LiveMs)
    /\ in_flight \in {0, 1}
    /\ (in_flight = 1) = (spc \in {"snapshot", "copy", "decide", "execute", "valuate"})
\* A step has returned after a trade changed the adapter's balances.
C8_Witness ==
    /\ spc = "returned"
    /\ executed # <<>>
    /\ phases = <<"snapshot", "copy", "decide", "execute", "valuate">>
    /\ usd_value # 0

\* The backtest just consumed had the arguments of the one consumed before it
\* on the same Fund.
SecondOfTwo == Consumed /\ runs # <<>> /\ runs[1].args = bt_args

\* C9 as claimed: a second backtest with the same start, end and interval on
\* the same Fund steps the same timestamps and yields the same valuations.
C9_Restartable ==
    SecondOfTwo => stepped = runs[1].stepped /\ yielded = runs[1].yielded
\* C9 as amended: the timestamps are the same; the valuations are the same
\* when the adapter's balances were the same at the start of both backtests.
C9_SameFromSameBalances ==
    SecondOfTwo =>
        /\ stepped = runs[1].stepped
        /\ (bt_balance0 = runs[1].balance0 => yielded = runs[1].yielded)
\* Two backtests of several steps from equal balances, with trades in between.
C9_Witness ==
    /\ SecondOfTwo
    /\ bt_balance0 = runs[1].balance0
    /\ Len(yielded) >= 2
    /\ yielded[1] # yielded[2]

\* ------------------------------------------------------ ingestion claims
\* This run is over: it ran to its end or an exception left it.
RunOver == ipc \in {"done", "failed"}

\* C2: a run in which the chart request of one pair fails does not abort;
\* every other pair is still fetched and written and the reference series is
\* written at the end.
C2_PairFailureIsolated ==
    (\E i \in MarketIds : pair_status[i] = "failed") =>
        /\ ipc # "failed"
        /\ ipc = "done" =>
             /\ \A j \in MarketIds : pair_status[j] # "pending"
             /\ ref_written

\* C3: a run that starts on an empty store does not fail for it; it takes
\* now - 1 year as the start of its window and goes on to the pairs.
C3_ColdStart ==
    (run_store = {} /\ RunOver /\ fail_at # "reference") =>
        /\ fail_at # "query"
        /\ \E t \in run_now..now : latest_fetch_unix = t - YEAR

\* The point of the store for pair number i at the time of the candle dated t.
StoredAt(i, t) ==
    {p \in store : p.pair = Markets[i] /\ p.time = format_time(FromTimestamp(t))}
\* Both volume and weightedAverage of the candle are 0.
ZeroCandle(c) == c.volume = 0 /\ c.weightedAverage = 0

\* C6: of the candles a run fetched for a pair, those with volume = 0 and
\* weightedAverage = 0 are not in the store and every other one is, with its
\* volume, weightedAverage and close as fetched and price_usd added.
C6_SentinelFilter ==
    \A i \in MarketIds : pair_status[i] = "ok" =>
        \A c \in fetched[i] :
            /\ (StoredAt(i, c.date) # {}) = ~ZeroCandle(c)
            /\ \A p \in StoredAt(i, c.date) :
                 /\ DOMAIN p.fields = {"volume", "weightedAverage", "close", "price_usd"}
                 /\ p.fields.volume = c.volume
                 /\ p.fields.weightedAverage = c.weightedAverage
                 /\ p.fields.close = c.close
\* One run fetched, for one pair, an all-zero candle, a candle with only its
\* volume 0 and a candle with only its weightedAverage 0.
C6_Witness ==
    \E i \in MarketIds :
        /\ pair_status[i] = "ok"
        /\ \E c \in fetched[i] : ZeroCandle(c)
        /\ \E c \in fetched[i] : c.volume = 0 /\ c.weightedAverage # 0
        /\ \E c \in fetched[i] : c.volume # 0 /\ c.weightedAverage = 0

\* The unix times of the readings of pair number i the store held at first.
FirstReadings(i) == {Mktime(p.time) : p \in {q \in store0 : q.pair = Markets[i]}}

\* C7: when a run completes, the store holds, for every pair, every upstream
\* candle that is not all-zero from the pair's most recent reading before the
\* runs up to the time the run started.
C7_NoPermanentGap ==
    ipc = "done" =>
        \A i \in MarketIds : \A t0 \in FirstReadings(i) :
            (\A u \in FirstReadings(i) : u <= t0) =>
                \A t \in t0..run_now :
                    (t >= 1 /\ ~ZeroCandle(ChartCandle(i, t))) => StoredAt(i, t) # {}

\* The reference series of this run could not be fetched or lacks a column.
ReferenceBad ==
    /\ ipc \notin {"idle", "reference"}
    /\ (fail_at = "reference" \/ btc_price_hist.columns # ReferenceColumns)

\* C10: a run whose reference series cannot be fetched or is malformed or
\* empty aborts, and the store is as it was before the run.
C10_ReferenceFatal ==
    ReferenceBad =>
        /\ store = run_store
        /\ ipc # "done"

\* The points select * ... order by time desc limit 1 can return.
LatestPoints(s) == {p \in s : \A q \in s : q.time <= p.time}
\* This run began right after a completed run, and the clock, and with it what
\* the upstream sources hold, has not moved since that run began.
SecondRun == back_to_back /\ run_now = now /\ ipc # "idle"

C12_CarryForward ==
    \A i \in MarketIds : pair_status[i] = "ok" =>
        \A c \in fetched[i] : \A p \in StoredAt(i, c.date) :
            \E t \in btc_price_hist.index :
                /\ t <= c.date
                /\ \A u \in btc_price_hist.index : u <= c.date => u <= t
                /\ p.fields.price_usd = c.weightedAverage * RefPriceUsd(t)

\* The adapter's balances, as held and as seen through its market state.
AdapterBalances == <<dict_heap[LiveBalances], dict_heap[ms_heap[LiveMs].balances]>>

\* C13: a step calls filter_and_execute exactly when the strategy returned
\* trades, and with those trades; the adapter's balances change in no other
\* part of a step, so a step without trades leaves them as they were.
C13_ExecuteIffTrades ==
    [][/\ spc' \in {"valuate", "returned"} =>
            /\ (executed' # <<>>) = (proposed_trades' # <<>>)
            /\ executed' # <<>> => executed' = <<proposed_trades'>>
       /\ AdapterBalances' # AdapterBalances =>
            /\ spc = "execute"
            /\ proposed_trades # <<>>
            /\ dict_heap'[LiveBalances] =
                   filter_and_execute(dict_heap[LiveBalances], proposed_trades)]_vars
\* A step is past its execute phase without a trade proposed, after the
\* strategy wrote to the balances it was handed.
C13_Witness ==
    /\ spc = "valuate"
    /\ proposed_trades = <<>>
    /\ executed = <<>>
    /\ dict_heap[CopyBalances] # dict_heap[LiveBalances]

\* C14: the store is append-only: a point, once written, stays in the store
\* with the fields it was written with, whatever runs and steps follow.
C14_AppendOnly == [][\A p \in store : p \in store']_vars

\* run_live's call of step is taking place in this step of the behaviour.
LiveStepCalled == mode = "live" /\ live_steps' = live_steps + 1
\* The iterations run_live has begun and the ones whose step it has called.
Iterations == Len(iter_begun)
AwaitingStep == lpc = "scrape" \/ (lpc = "raised" /\ ipc = "failed")

\* C15: in an iteration of run_live the ingestion run begun in the iteration
\* has completed when step is called, after the step before has returned;
\* there is one step per iteration; the sleep comes after the step has
\* returned; and only a failure takes the loop out of live mode.
C15_LiveIteration ==
    [][/\ LiveStepCalled =>
            /\ ipc = "done"
            /\ run_now = iter_begun[Iterations]
            /\ spc = "idle"
            /\ spc' = "snapshot"
       /\ mode' \in {"live", "crashed"} =>
            live_steps' = Len(iter_begun') - (IF AwaitingStep' THEN 1 ELSE 0)
       /\ (mode = "live" /\ sleep_for' # sleep_for) =>
            /\ spc = "returned"
            /\ lpc = "step"
            /\ lpc' = "top"
       /\ (mode = "live" /\ lpc = "step" /\ lpc' # "step") =>
            spc \in {"returned", "raised"}
       /\ (mode = "live" /\ mode' # "live") =>
            /\ mode' = "crashed"
            /\ ipc = "failed" \/ spc = "raised"]_vars
\* The third iteration's step is under way: two steps, each after an
\* ingestion run of its own, have returned before it.
C15_Witness ==
    /\ mode = "live"
    /\ lpc = "step"
    /\ live_steps = 3
    /\ Iterations = 3
    /\ ipc = "done"
    /\ spc = "valuate"

\* The driver that a failure of step left was begin_backtest.
BacktestFailed == spc = "raised" /\ mode \in {"backtest", "crashed"} /\ lpc = "off"

\* C16: when a call inside step raises, the driver catches nothing: all it
\* does next is let the exception out to its caller, no step is called and no
\* value yielded after it, and in a backtest the values yielded are those of
\* the timestamps before t, a prefix of the sequence without a gap.
C16_StepFailurePropagates ==
    [][/\ spc = "raised" =>
            /\ spc' = "raised"
            /\ mode' \in {mode, "crashed"}
            /\ UNCHANGED <<stepped, yielded, dates, live_steps, in_flight>>
       /\ mode = "crashed" =>
            UNCHANGED <<mode, spc, stepped, yielded, dates, live_steps, in_flight>>
       /\ BacktestFailed' =>
            /\ stepped' \o dates' = date_range(bt_args'[1], bt_args'[2], trade_interval')
            /\ Len(yielded') = Len(stepped') - 1]_vars
\* A backtest was left by a failure of its third step at least, with dates
\* still to visit: the values of the steps before it were yielded.
C16_Witness ==
    /\ BacktestFailed
    /\ mode = "crashed"
    /\ Len(yielded) >= 2
    /\ dates # <<>>

\* C17: every point the runs have written, of an exchange pair or of USD_BTC,
\* has at least weightedAverage, volume and price_usd among its fields, and
\* no USD_BTC point has market_cap_by_available_supply or volume_usd.
C17_PointFields ==
    \A p \in store \ store0 :
        /\ {"weightedAverage", "volume", "price_usd"} \subseteq DOMAIN p.fields
        /\ p.pair = USD_BTC =>
             DOMAIN p.fields \cap {"market_cap_by_available_supply", "volume_usd"} = {}

\* The points of pair number i that the store held when this run started.
StoredBefore(i) == {p \in run_store : p.pair = Markets[i]}

\* C18: the window a run uses for a pair starts at the time of the most
\* recent point the store held for that pair when the run started.
C18_CursorPerPair ==
    ipc \in {"pairs", "marshall", "done"} =>
        \A i \in MarketIds : StoredBefore(i) # {} =>
            latest_fetch_unix = Mktime(LatestTime(StoredBefore(i)))

\* The cell of loop_start's interval grid that time t falls in.
Cell(t) == (t - start_time) \div trade_interval
\* Overruns tried on top of the time the iteration took: up to three whole
\* intervals.
Overruns == 0..(3 * (MaxInterval + 1))
\* The step of a live iteration has returned: the sleep is computed next.
AboutToSleep == mode = "live" /\ lpc = "step" /\ spc = "returned"

\* C19: when the sleep is computed it is, for every positive interval and
\* however long the iteration took, more than 0 and at most the interval; the
\* loop wakes in the grid cell next to
\* the one its step returned in, so the iterations, and the steps they call,
\* begin in different cells, one iteration per wake-up whatever ticks an
\* overrun has missed.
C19_SleepInRange ==
    /\ AboutToSleep =>
          \A period \in 1..(MaxInterval + 1) : \A e \in Overruns :
              /\ sleep_duration(period, start_time, now + e) > 0
              /\ sleep_duration(period, start_time, now + e) <= period
    /\ (mode = "live" /\ lpc = "top" /\ iter_begun # <<>>) =>
          /\ sleep_for > 0
          /\ sleep_for <= trade_interval
          /\ Cell(now) = Cell(now - sleep_for) + 1
    /\ \A k \in 1..(Len(iter_begun) - 1) : Cell(iter_begun[k]) < Cell(iter_begun[k + 1])
    /\ (mode = "live" /\ lpc \in {"scrape", "step"}) =>
          /\ now >= iter_begun[Len(iter_begun)]
          /\ Cell(now) >= Cell(iter_begun[Len(iter_begun)])
\* The step of an iteration is under way after the iteration before overran
\* a whole interval and more: the loop slept to the next grid point and
\* began one iteration, the ticks in between skipped.
C19_Witness ==
    /\ mode = "live"
    /\ lpc = "step"
    /\ spc = "decide"
    /\ Len(iter_begun) >= 2
    /\ Cell(iter_begun[Len(iter_begun)]) >= Cell(iter_begun[Len(iter_begun) - 1]) + 2

====
